---- MODULE Spec2Model ----
(***************************************************************************)
(* NozzleCAM camera firmware: frame-buffer lifecycle, MJPEG streaming loop *)
(* and sensor re-initialisation.                                           *)
(*                                                                         *)
(* Two firmware variants are modelled.  "src" is src/src/main.cpp (Arduino *)
(* WebServer: /health, /reinit, /jpg, /stream, all served run-to-completion*)
(* from loop()).  "default" is src/version/default/main.cpp (esp_http_     *)
(* server with a single stream_handler).  A behaviour is one build running *)
(* on one board: the variant and the presence of PSRAM are fixed in Init.  *)
(*                                                                         *)
(* The camera driver (esp_camera), the JPEG encoder (frame2jpg) and the    *)
(* TCP transport (WiFiClient / httpd) are libraries outside the repository;*)
(* their results are inputs, drawn with \E from the outcomes they can give.*)
(***************************************************************************)
EXTENDS Integers, Sequences, FiniteSets, TLC

----------------------------------------------------------------------------
(* Bounds of the model *)

\* frames the driver delivers to one stream session before it runs dry
MaxFrames == 3
\* short (partial) writes the transport makes in one stream session
MaxShort == 1
\* byte length of a raw (non-JPEG) frame buffer
RawLen == 4000
\* driver and bus calls of one camera_reinit() call that are recorded
MaxSteps == 6

\* byte lengths of the JPEG frames the sensor delivers
Lens == {1000, 1500, 2000}

\* byte lengths frame2jpg produces for a raw frame
ConvLens == {1500}

----------------------------------------------------------------------------
(* Program constants *)

XCLK_HZ_DEFAULT == 24000000
XCLK_HZ_FALLBACK == 20000000
FB_COUNT == 2
SCCB_MAX_PULSES == 9
WARMUP_FRAMES == 4
HEALTH_TRIES == 2
STREAM_NULL_LIMIT == 8
PART_FIXED_CHARS == 55
PREAMBLE_LEN == 176
TRAILER_LEN == 2

----------------------------------------------------------------------------
(* Values *)

\* camera_fb_t* : the null pointer, or a frame buffer with its format and length
NoFb == [format |-> "NONE", len |-> 0]
Frames == [format : {"JPEG"}, len : Lens] \cup {[format |-> "RAW", len |-> RawLen]}

\* camera_config_t before make_cam_cfg() has filled it
NoCfg == [xclk_freq_hz |-> 0, fb_count |-> 0, fb_location |-> "NONE"]

\* disposal record of the frame captured last: driver returns, frees of the
\* converted allocation, and which encoding path the frame took
NoDisp == [rel |-> 0, freed |-> 0, path |-> "none"]

VARIABLES
  variant,        \* which firmware build runs
  psram,          \* psramFound()
  pc,             \* position of the single control flow
  handler,        \* the handler (or setup) the control flow is inside
  cam_ready,      \* static bool cam_ready
  XCLK_HZ,        \* static int XCLK_HZ
  c,              \* camera_config_t c of camera_reinit
  drvInit,        \* driver state: esp_camera_init succeeded and no deinit since
  sensor_applied, \* driver state: sensor parameters re-applied since init
  siod, sioc,     \* pin modes of the SCCB data and clock lines
  i,              \* loop counter of the running loop
  ok,             \* bool ok of the running function
  fb,             \* camera_fb_t* fb
  jpg,            \* uint8_t* jpg: "null", "alias" (fb->buf) or "alloc" (malloc'd)
  len,            \* size_t len
  nulls,          \* uint8_t nulls
  out,            \* what was written to the client connection, in order
  resp,           \* status of the response sent with server.send / httpd, 0 if none
  acq, ret,       \* non-null esp_camera_fb_get results / esp_camera_fb_return calls
  frames,         \* encoded payload lengths of the frames acquired by the session
  disp,           \* disposal record of the frame captured last
  shorts,         \* short writes made by the transport in this session
  exit,           \* why the stream loop was left
  steps,          \* driver and bus calls made by the running camera_reinit()
  sda             \* level last read from the data line by sccb_recover()

vars == <<variant, psram, pc, handler, cam_ready, XCLK_HZ, c, drvInit,
          sensor_applied, siod, sioc, i, ok, fb, jpg, len, nulls, out, resp,
          acq, ret, frames, disp, shorts, exit, steps, sda>>

hw     == <<variant, psram>>
bus    == <<siod, sioc>>
locals == <<i, ok, fb, jpg, len, nulls>>
conn   == <<out, resp, shorts, exit>>
ghost  == <<acq, ret, frames, disp>>

----------------------------------------------------------------------------
(* Pure helpers *)

\* printf("%u", (unsigned)len): the decimal digits, most significant first.
\* size_t and unsigned are both 32 bits wide on the ESP32, so the cast keeps
\* the value.
RECURSIVE Digits(_)
Digits(n) == IF n < 10 THEN <<n>> ELSE Append(Digits(n \div 10), n % 10)

\* the trailer counted into the length
FormatUPlusTrailer(n) == Digits(n + 2)

FormatU(n) == Digits(n)

\* what an HTTP client reads back from the digits of a Content-Length field
RECURSIVE DecValue(_)
DecValue(ds) == IF ds = <<>> THEN 0
                ELSE 10 * DecValue(SubSeq(ds, 1, Len(ds) - 1)) + ds[Len(ds)]

\* the return value of
\* snprintf(part, sizeof(part), "--frame\r\n...Content-Length: %u\r\n\r\n", len)
SnprintfLen(n) == PART_FIXED_CHARS + Len(FormatU(n))

\* one write on the client connection: what was written, the bytes asked
\* for, the bytes the transport took, and for a part header the digits of
\* its Content-Length field
Wr(k, req, n, cl) == [k |-> k, req |-> req, n |-> n, cl |-> cl]

\* make_cam_cfg()
make_cam_cfg(xclk) ==
  [xclk_freq_hz |-> xclk,
   fb_count     |-> IF psram THEN FB_COUNT ELSE 1,
   fb_location  |-> IF psram THEN "PSRAM" ELSE "DRAM"]

\* esp_camera_fb_get(): NULL when the driver is not initialised, otherwise
\* NULL (no frame ready) or a frame buffer
FbGetResults == IF drvInit THEN {NoFb} \cup Frames ELSE {NoFb}

\* a short write of req bytes transmits some, not all, of them
ShortOf(req) == IF req > 1 THEN {req \div 2} ELSE {}

\* size_t WiFiClient::write(buf, req): bytes written; 0 on failure
WriteResults(req) ==
  {0, req} \cup (IF shorts < MaxShort THEN ShortOf(req) ELSE {})

----------------------------------------------------------------------------
Init ==
  /\ variant \in {"src", "default"}
  /\ psram \in BOOLEAN
  /\ pc = "boot"
  /\ handler = "setup"
  /\ cam_ready = FALSE
  /\ XCLK_HZ = XCLK_HZ_DEFAULT
  /\ c = NoCfg
  /\ drvInit = FALSE
  /\ sensor_applied = FALSE
  /\ siod = "INPUT" /\ sioc = "INPUT"
  /\ i = 0 /\ ok = FALSE /\ fb = NoFb /\ jpg = "null" /\ len = 0 /\ nulls = 0
  /\ out = <<>> /\ resp = 0 /\ shorts = 0 /\ exit = "none"
  /\ acq = 0 /\ ret = 0 /\ frames = <<>> /\ disp = NoDisp
  /\ steps = <<>>
  /\ sda = "none"

----------------------------------------------------------------------------
(* src/src/main.cpp: setup() *)

\* setup() up to the call cam_ready = camera_reinit()
setup_begin ==
  /\ pc = "boot" /\ variant = "src"
  /\ pc' = "reinit_deinit"
  /\ UNCHANGED <<hw, steps, sda, handler, cam_ready, XCLK_HZ, c, drvInit, sensor_applied,
                 bus, locals, conn, ghost>>

\* cam_ready = <result of camera_reinit()>, then the rest of setup()
setup_finish ==
  /\ pc = "setup_assign"
  /\ cam_ready' = ok
  /\ pc' = "done"
  /\ UNCHANGED <<hw, steps, sda, handler, XCLK_HZ, c, drvInit, sensor_applied, bus,
                 locals, conn, ghost>>

----------------------------------------------------------------------------
(* camera_reinit() *)

\* one call made by camera_reinit(): which call, and for esp_camera_init the
\* configuration passed to it
Step(op, cfg) == [op |-> op, cfg |-> cfg]

\* the call recorded after those made so far
StepLog(s, e) == IF Len(s) < MaxSteps THEN Append(s, e) ELSE s

\* esp_camera_deinit() having no effect on the driver
DrvAfterDeinitKept == drvInit

\* the driver state after esp_camera_deinit()
DrvAfterDeinit == FALSE

\* esp_camera_deinit()
camera_reinit_deinit ==
  /\ pc = "reinit_deinit"
  /\ drvInit' = DrvAfterDeinit
  /\ sensor_applied' = FALSE
  /\ steps' = <<Step("deinit", NoCfg)>>
  /\ pc' = "sccb_start"
  /\ UNCHANGED <<hw, sda, handler, cam_ready, XCLK_HZ, c, bus, locals, conn, ghost>>

\* the loop going on whatever the data line reads
PulseAgainIgnoringData(n, level) == n < SCCB_MAX_PULSES

\* another clock pulse follows n pulses: the data line read LOW (line 94, or
\* no break at line 102) and the for loop's i < 9 holds
PulseAgain(n, level) == level = "LOW" /\ n < SCCB_MAX_PULSES

\* sccb_recover(): both lines to pulled-up inputs, sample the data line
sccb_recover_start ==
  /\ pc = "sccb_start"
  /\ siod' = "INPUT_PULLUP" /\ sioc' = "INPUT_PULLUP"
  /\ i' = 0
  /\ \E level \in {"LOW", "HIGH"} :
       /\ sda' = level
       /\ pc' = IF PulseAgain(0, level) THEN "sccb_pulse" ELSE "sccb_stop"
  /\ steps' = StepLog(steps, Step("sccb_recover", NoCfg))
  /\ UNCHANGED <<hw, handler, cam_ready, XCLK_HZ, c, drvInit, sensor_applied,
                 ok, fb, jpg, len, nulls, conn, ghost>>

\* one iteration of for (i=0;i<9;i++): the clock line driven HIGH then LOW,
\* released to a pulled-up input, then the data line sampled
sccb_recover_pulse ==
  /\ pc = "sccb_pulse"
  /\ sioc' = "INPUT_PULLUP"
  /\ i' = i + 1
  /\ \E level \in {"LOW", "HIGH"} :
       /\ sda' = level
       /\ pc' = IF PulseAgain(i + 1, level) THEN "sccb_pulse" ELSE "sccb_stop"
  /\ UNCHANGED <<hw, steps, handler, cam_ready, XCLK_HZ, c, drvInit,
                 sensor_applied, siod, ok, fb, jpg, len, nulls, conn, ghost>>

\* the stop condition: data driven LOW, clock driven HIGH, data driven HIGH
sccb_recover_stop ==
  /\ pc = "sccb_stop"
  /\ siod' = "OUTPUT_HIGH" /\ sioc' = "OUTPUT_HIGH"
  /\ pc' = "sccb_release"
  /\ UNCHANGED <<hw, steps, sda, handler, cam_ready, XCLK_HZ, c, drvInit,
                 sensor_applied, locals, conn, ghost>>

\* both lines back to pulled-up inputs; sccb_recover() returns
sccb_recover_release ==
  /\ pc = "sccb_release"
  /\ siod' = "INPUT_PULLUP" /\ sioc' = "INPUT_PULLUP"
  /\ i' = 0
  /\ sda' = "none"
  /\ pc' = "reinit_init1"
  /\ UNCHANGED <<hw, steps, handler, cam_ready, XCLK_HZ, c, drvInit,
                 sensor_applied, ok, fb, jpg, len, nulls, conn, ghost>>

\* c = make_cam_cfg(); err = esp_camera_init(&c);
camera_reinit_init1 ==
  /\ pc = "reinit_init1"
  /\ c' = make_cam_cfg(XCLK_HZ)
  /\ \E err \in {"ESP_OK", "ESP_FAIL"} :
       /\ drvInit' = (err = "ESP_OK")
       /\ pc' = IF err = "ESP_OK" THEN "reinit_sensor" ELSE "reinit_init2"
  /\ steps' = StepLog(steps, Step("init", c'))
  /\ UNCHANGED <<hw, sda, handler, cam_ready, XCLK_HZ, sensor_applied, bus, locals,
                 conn, ghost>>

\* the value XCLK_HZ has after line 150
RetryXclk == XCLK_HZ_FALLBACK

\* a second failure starting the attempts over instead of returning
InitFailedPcRetry == "reinit_init1"

\* where control goes when the second esp_camera_init fails: return false
InitFailedPc == "reinit_ret"

\* line 155 left out
ReadyAfterInitFailedKept == cam_ready

\* the value cam_ready gets when the second esp_camera_init fails (line 155)
ReadyAfterInitFailed == FALSE

\* XCLK_HZ = 20000000; c = make_cam_cfg(); err = esp_camera_init(&c);
\* on a second failure: cam_ready = false; return false
camera_reinit_init2 ==
  /\ pc = "reinit_init2"
  /\ XCLK_HZ' = RetryXclk
  /\ c' = make_cam_cfg(RetryXclk)
  /\ \E err \in {"ESP_OK", "ESP_FAIL"} :
       /\ drvInit' = (err = "ESP_OK")
       /\ IF err = "ESP_OK"
          THEN pc' = "reinit_sensor" /\ UNCHANGED <<cam_ready, ok>>
          ELSE /\ pc' = InitFailedPc
               /\ cam_ready' = ReadyAfterInitFailed
               /\ ok' = FALSE
  /\ steps' = StepLog(steps, Step("init", c'))
  /\ UNCHANGED <<hw, sda, handler, sensor_applied, bus, i, fb, jpg, len, nulls,
                 conn, ghost>>

\* s = esp_camera_sensor_get(); if (s) { set_framesize ... set_awb_gain }
camera_reinit_sensor ==
  /\ pc = "reinit_sensor"
  /\ sensor_applied' = TRUE
  /\ i' = 0
  /\ pc' = "reinit_warm"
  /\ UNCHANGED <<hw, steps, sda, handler, cam_ready, XCLK_HZ, c, drvInit, bus, ok, fb, jpg,
                 len, nulls, conn, ghost>>

\* the i++ of the warm-up loop
WarmupNext(n) == n + 1

\* returns made for a frame obtained in the warm-up loop
WarmupReturns(f) == IF f # NoFb THEN 1 ELSE 0

\* one iteration of for (i=0;i<4;i++){ fb = get(); if (fb) return(fb); }
camera_reinit_warm ==
  /\ pc = "reinit_warm"
  /\ i < WARMUP_FRAMES
  /\ \E f \in FbGetResults :
       /\ acq' = acq + (IF f # NoFb THEN 1 ELSE 0)
       /\ ret' = ret + WarmupReturns(f)
  /\ i' = WarmupNext(i)
  /\ UNCHANGED <<hw, steps, sda, pc, handler, cam_ready, XCLK_HZ, c, drvInit,
                 sensor_applied, bus, ok, fb, jpg, len, nulls, conn, frames,
                 disp>>

\* readiness made to depend on a warm-up frame having been delivered
ReadyAfterWarmupIfFrame == acq > 0

\* the value cam_ready gets at line 171
ReadyAfterWarmup == TRUE

\* loop exit; cam_ready = true; return true
camera_reinit_done ==
  /\ pc = "reinit_warm"
  /\ ~(i < WARMUP_FRAMES)
  /\ cam_ready' = ReadyAfterWarmup
  /\ ok' = TRUE
  /\ pc' = "reinit_ret"
  /\ UNCHANGED <<hw, steps, sda, handler, XCLK_HZ, c, drvInit, sensor_applied, bus, i, fb,
                 jpg, len, nulls, conn, ghost>>

\* return to the caller of camera_reinit()
camera_reinit_return ==
  /\ pc = "reinit_ret"
  /\ pc' = IF handler = "setup" THEN "setup_assign" ELSE "handleReinit_send"
  /\ i' = 0
  /\ UNCHANGED <<hw, steps, sda, handler, cam_ready, XCLK_HZ, c, drvInit, sensor_applied,
                 bus, ok, fb, jpg, len, nulls, conn, ghost>>

ReinitPcs == {"reinit_deinit", "sccb_start", "sccb_pulse", "sccb_stop",
              "sccb_release",
              "reinit_init1", "reinit_init2", "reinit_sensor", "reinit_warm",
              "reinit_ret"}

----------------------------------------------------------------------------
(* loop(): server.handleClient() dispatches one request, the handler runs   *)
(* to completion, and control is back in loop()                             *)

\* requests being dispatched from inside the stream loop as well
DispatchPointInStream == pc \in {"idle", "stream_loop"}

\* server.handleClient() dispatches a request only when called from loop(),
\* that is when no handler is running
DispatchPoint == pc = "idle"

\* the handler has returned; its locals and the request's connection are gone
loop ==
  /\ pc = "done"
  /\ pc' = "idle"
  /\ handler' = "none"
  /\ i' = 0 /\ ok' = FALSE /\ fb' = NoFb /\ jpg' = "null" /\ len' = 0
  /\ nulls' = 0
  /\ out' = <<>> /\ resp' = 0 /\ shorts' = 0 /\ exit' = "none"
  /\ acq' = 0 /\ ret' = 0 /\ frames' = <<>> /\ disp' = NoDisp
  /\ steps' = <<>>
  /\ UNCHANGED <<hw, sda, cam_ready, XCLK_HZ, c, drvInit, sensor_applied, bus>>

----------------------------------------------------------------------------
(* handleReinit() *)

handleReinit_begin ==
  /\ DispatchPoint /\ variant = "src"
  /\ handler' = "handleReinit"
  /\ pc' = "reinit_deinit"
  /\ UNCHANGED <<hw, steps, sda, cam_ready, XCLK_HZ, c, drvInit, sensor_applied, bus,
                 locals, conn, ghost>>

\* the status not depending on the result
ReinitStatusAlwaysOk(r) == 200

\* the status handleReinit answers with
ReinitStatus(r) == IF r THEN 200 ELSE 500

\* server.send(ok?200:500, "text/plain", ok ? "reinit ok" : "reinit failed")
handleReinit_send ==
  /\ pc = "handleReinit_send"
  /\ resp' = ReinitStatus(ok)
  /\ pc' = "done"
  /\ UNCHANGED <<hw, steps, sda, handler, cam_ready, XCLK_HZ, c, drvInit, sensor_applied,
                 bus, locals, out, shorts, exit, ghost>>

----------------------------------------------------------------------------
(* handleHealth() *)

\* the probe attempted whatever cam_ready says
ProbeAllowedAlways == TRUE

\* the test  if (cam_ready)  around the probe loop
ProbeAllowed == cam_ready

\* bool ok = false; if (cam_ready) { for (i=0; ...
handleHealth_begin ==
  /\ DispatchPoint /\ variant = "src"
  /\ handler' = "handleHealth"
  /\ ok' = FALSE
  /\ i' = 0
  /\ pc' = IF ProbeAllowed THEN "health_try" ELSE "health_send"
  /\ UNCHANGED <<hw, steps, sda, cam_ready, XCLK_HZ, c, drvInit, sensor_applied, bus, fb,
                 jpg, len, nulls, conn, ghost>>

\* the loop condition without  && !ok
HealthContinueAll == i < HEALTH_TRIES

\* the loop condition i<2 && !ok
HealthContinue == i < HEALTH_TRIES /\ ~ok

\* the probe storing its result in cam_ready
ReadyAfterProbeStored(r) == r

\* the value cam_ready has after one probe attempt
ReadyAfterProbe(r) == cam_ready

\* one iteration: fb = get(); if (fb){ return(fb); ok = true; } else delay(15);
handleHealth_try ==
  /\ pc = "health_try"
  /\ HealthContinue
  /\ \E f \in FbGetResults :
       /\ acq' = acq + (IF f # NoFb THEN 1 ELSE 0)
       /\ ret' = ret + (IF f # NoFb THEN 1 ELSE 0)
       /\ ok' = (f # NoFb)
       /\ cam_ready' = ReadyAfterProbe(f # NoFb)
  /\ i' = i + 1
  /\ UNCHANGED <<hw, steps, sda, pc, handler, XCLK_HZ, c, drvInit, sensor_applied, bus,
                 fb, jpg, len, nulls, conn, frames, disp>>

handleHealth_exit ==
  /\ pc = "health_try"
  /\ ~HealthContinue
  /\ pc' = "health_send"
  /\ UNCHANGED <<hw, steps, sda, handler, cam_ready, XCLK_HZ, c, drvInit, sensor_applied,
                 bus, locals, conn, ghost>>

\* server.send(ok?200:500, "application/json", buf)
handleHealth_send ==
  /\ pc = "health_send"
  /\ resp' = IF ok THEN 200 ELSE 500
  /\ pc' = "done"
  /\ UNCHANGED <<hw, steps, sda, handler, cam_ready, XCLK_HZ, c, drvInit, sensor_applied,
                 bus, locals, out, shorts, exit, ghost>>

----------------------------------------------------------------------------
(* Frame disposal, shared by handleJpg and handleStream:                    *)
(*   if (fb) esp_camera_fb_return(fb); else if (jpg) free(jpg);             *)

DisposeReturns(f, j) == IF f # NoFb THEN 1 ELSE 0

\* the branch  else if (jpg) free(jpg)  left out
DisposeFreesNever(f, j) == 0

DisposeFrees(f, j) == IF f = NoFb /\ j # "null" THEN 1 ELSE 0

Disposed(d, f, j) ==
  [d EXCEPT !.rel = @ + DisposeReturns(f, j), !.freed = @ + DisposeFrees(f, j)]

\* a frame has just been captured
Captured == [rel |-> 0, freed |-> 0, path |-> "captured"]

\* fb=nullptr left out after the return
FbAfterConvertKept(f) == f

\* the fb pointer after  frame2jpg(fb,...); esp_camera_fb_return(fb); fb=nullptr;
FbAfterConvert(f) == NoFb

\* the source frame kept by the handler across the conversion
ConvertReturnsNone(f) == 0

\* esp_camera_fb_return calls made right after frame2jpg(fb, ...), whatever
\* its result
ConvertReturns(f) == 1

\* The encode step of handleJpg and handleStream:
\*   if (fb->format != PIXFORMAT_JPEG){ ok = frame2jpg(fb, q, &jpg, &len);
\*      esp_camera_fb_return(fb); fb=nullptr; if (!ok) <fail> }
\*   else { jpg = fb->buf; len = fb->len; }
\* frame2jpg allocates the output on success and leaves jpg null on failure.
Encode(okpc, failpc, failresp, failexit) ==
  IF fb.format # "JPEG"
  THEN \E cok \in BOOLEAN, cv \in ConvLens :
         /\ fb' = FbAfterConvert(fb)
         /\ ret' = ret + ConvertReturns(fb)
         /\ IF ~cok
            THEN /\ jpg' = "null" /\ len' = 0
                 /\ disp' = [disp EXCEPT !.rel = @ + ConvertReturns(fb),
                                         !.path = "convfail"]
                 /\ frames' = frames
                 /\ resp' = failresp
                 /\ exit' = failexit
                 /\ pc' = failpc
            ELSE /\ jpg' = "alloc" /\ len' = cv
                 /\ disp' = [disp EXCEPT !.rel = @ + ConvertReturns(fb),
                                         !.path = "converted"]
                 /\ frames' = Append(frames, cv)
                 /\ UNCHANGED <<resp, exit>>
                 /\ pc' = okpc
  ELSE /\ jpg' = "alias" /\ len' = fb.len
       /\ disp' = [disp EXCEPT !.path = "alias"]
       /\ frames' = Append(frames, fb.len)
       /\ pc' = okpc
       /\ UNCHANGED <<fb, ret, resp, exit>>

----------------------------------------------------------------------------
(* handleJpg() *)

\* every failure answered with 200
JpgFailStatusOk(reason) == 200

\* the status handleJpg answers with when it has no image to send:
\* 503 "cam not ready", 500 "fb NULL", 500 "jpg conv fail"
JpgFailStatus(reason) == IF reason = "notready" THEN 503 ELSE 500

\* if (!cam_ready) 503; fb = esp_camera_fb_get(); if (!fb) 500
handleJpg_begin ==
  /\ DispatchPoint /\ variant = "src"
  /\ handler' = "handleJpg"
  /\ IF ~cam_ready
     THEN /\ resp' = JpgFailStatus("notready") /\ pc' = "done"
          /\ UNCHANGED <<fb, acq, disp>>
     ELSE \E f \in FbGetResults :
            IF f = NoFb
            THEN /\ resp' = JpgFailStatus("fbnull") /\ pc' = "done"
                 /\ UNCHANGED <<fb, acq, disp>>
            ELSE /\ fb' = f /\ acq' = acq + 1 /\ disp' = Captured
                 /\ pc' = "jpg_enc"
                 /\ UNCHANGED resp
  /\ UNCHANGED <<hw, steps, sda, cam_ready, XCLK_HZ, c, drvInit, sensor_applied, bus, i, ok,
                 jpg, len, nulls, out, shorts, exit, ret, frames>>

handleJpg_enc ==
  /\ pc = "jpg_enc"
  /\ Encode("jpg_send", "done", JpgFailStatus("convfail"), "none")
  /\ UNCHANGED <<hw, steps, sda, handler, cam_ready, XCLK_HZ, c, drvInit, sensor_applied,
                 bus, i, ok, nulls, out, shorts, acq>>

\* server.setContentLength(len); server.send(200, "image/jpeg", "");
\* server.client().write(jpg, len);   (the result of the write is not looked at)
handleJpg_send ==
  /\ pc = "jpg_send"
  /\ resp' = 200
  /\ \E w \in WriteResults(len) :
       /\ out' = <<Wr("status", 0, 0, FormatU(len)), Wr("payload", len, w, <<>>)>>
       /\ shorts' = shorts + (IF 0 < w /\ w < len THEN 1 ELSE 0)
  /\ pc' = "jpg_release"
  /\ UNCHANGED <<hw, steps, sda, handler, cam_ready, XCLK_HZ, c, drvInit, sensor_applied,
                 bus, locals, exit, ghost>>

\* if (fb) esp_camera_fb_return(fb); else if (jpg) free(jpg);
handleJpg_release ==
  /\ pc = "jpg_release"
  /\ ret' = ret + DisposeReturns(fb, jpg)
  /\ disp' = Disposed(disp, fb, jpg)
  /\ pc' = "done"
  /\ UNCHANGED <<hw, steps, sda, handler, cam_ready, XCLK_HZ, c, drvInit, sensor_applied,
                 bus, locals, conn, acq, frames>>

----------------------------------------------------------------------------
(* handleStream() *)

\* the client.print of the response head left out
PreambleNone == <<>>

\* what the connection has carried after client.print(<preamble>): the status
\* line, the multipart content type and the cache headers, in one write
Preamble == <<Wr("preamble", PREAMBLE_LEN, PREAMBLE_LEN, <<>>)>>

\* if (!cam_ready) 503; client = server.client(); if (!client) return;
\* client.print(<preamble>);  uint8_t nulls = 0;
handleStream_begin ==
  /\ DispatchPoint /\ variant = "src"
  /\ handler' = "handleStream"
  /\ IF ~cam_ready
     THEN /\ resp' = 503 /\ pc' = "done" /\ exit' = "notready"
          /\ UNCHANGED out
     ELSE \E client \in BOOLEAN :
            IF ~client
            THEN /\ pc' = "done" /\ exit' = "noclient"
                 /\ UNCHANGED <<out, resp>>
            ELSE /\ out' = Preamble
                 /\ pc' = "stream_loop"
                 /\ UNCHANGED <<resp, exit>>
  /\ nulls' = 0
  /\ UNCHANGED <<hw, steps, sda, cam_ready, XCLK_HZ, c, drvInit, sensor_applied, bus, i, ok,
                 fb, jpg, len, shorts, ghost>>

\* the bound taken one too small
NullsExhaustedEarly(n) == n >= STREAM_NULL_LIMIT - 1

\* the test  ++nulls >= 8  on the incremented 8-bit counter
NullsExhausted(n) == n >= STREAM_NULL_LIMIT

\* a counter that wraps at the limit and so never reaches it
NullsNextWrapsAtLimit(n) == (n + 1) % STREAM_NULL_LIMIT

\* ++nulls on the uint8_t counter
NullsNext(n) == (n + 1) % 256

\* the value of nulls after a non-null frame (line 468)
NullsAfterFrame(n) == 0

\* The head of one iteration:
\*   while (client.connected()){
\*     fb = esp_camera_fb_get();
\*     if (!fb){ if (++nulls >= 8) break; delay(8); continue; }
\*     nulls = 0;
handleStream_get ==
  /\ pc = "stream_loop"
  /\ \E connected \in BOOLEAN, f \in FbGetResults :
       /\ (f # NoFb) => acq < MaxFrames
       /\ IF ~connected
          THEN /\ pc' = "done" /\ exit' = "disconnected"
               /\ UNCHANGED <<nulls, fb, acq, disp>>
          ELSE IF f = NoFb
          THEN /\ nulls' = NullsNext(nulls)
               /\ IF NullsExhausted(nulls')
                  THEN pc' = "done" /\ exit' = "nulls"
                  ELSE pc' = "stream_loop" /\ UNCHANGED exit
               /\ UNCHANGED <<fb, acq, disp>>
          ELSE /\ nulls' = NullsAfterFrame(nulls)
               /\ fb' = f /\ acq' = acq + 1 /\ disp' = Captured
               /\ pc' = "stream_enc"
               /\ UNCHANGED exit
  /\ UNCHANGED <<hw, steps, sda, handler, cam_ready, XCLK_HZ, c, drvInit, sensor_applied,
                 bus, i, ok, jpg, len, out, resp, shorts, ret, frames>>

\* a failed conversion going on with the next iteration
ConvFailedPcContinue(looppc) == looppc

\* where the stream loop whose head is looppc goes when frame2jpg fails:
\* break, and the handler returns
ConvFailedPc(looppc) == "done"

handleStream_enc ==
  /\ pc = "stream_enc"
  /\ Encode("stream_hdr", ConvFailedPc("stream_loop"), resp, "conv")
  /\ UNCHANGED <<hw, steps, sda, handler, cam_ready, XCLK_HZ, c, drvInit, sensor_applied,
                 bus, i, ok, nulls, out, shorts, acq>>

\* the result taken for a signed error code
WriteFailedNegative(w, req) == w < 0

\* the test  !client.write(buf, n)  applied to the write's result w
WriteFailed(w, req) == w = 0

\* One of the three writes of a part:
\*   if (!client.write(buf, req)) { <dispose>; break; }
StreamWrite(k, req, cl, nextpc) ==
  \E w \in WriteResults(req) :
    /\ out' = Append(out, Wr(k, req, w, cl))
    /\ shorts' = shorts + (IF 0 < w /\ w < req THEN 1 ELSE 0)
    /\ IF WriteFailed(w, req)
       THEN /\ ret' = ret + DisposeReturns(fb, jpg)
            /\ disp' = Disposed(disp, fb, jpg)
            /\ fb' = NoFb /\ jpg' = "null" /\ len' = 0
            /\ exit' = "write"
            /\ pc' = "done"
       ELSE /\ pc' = nextpc
            /\ UNCHANGED <<ret, disp, fb, jpg, len, exit>>

\* hlen = snprintf(part, sizeof(part), "...Content-Length: %u\r\n\r\n", len);
\* if (!client.write(part, hlen)) ...
handleStream_hdr ==
  /\ pc = "stream_hdr"
  /\ StreamWrite("hdr", SnprintfLen(len), FormatU(len), "stream_payload")
  /\ UNCHANGED <<hw, steps, sda, handler, cam_ready, XCLK_HZ, c, drvInit, sensor_applied,
                 bus, i, ok, nulls, resp, acq, frames>>

\* if (!client.write(jpg, len)) ...
handleStream_payload ==
  /\ pc = "stream_payload"
  /\ StreamWrite("payload", len, <<>>, "stream_trailer")
  /\ UNCHANGED <<hw, steps, sda, handler, cam_ready, XCLK_HZ, c, drvInit, sensor_applied,
                 bus, i, ok, nulls, resp, acq, frames>>

\* if (!client.write("\r\n", 2)) ...
handleStream_trailer ==
  /\ pc = "stream_trailer"
  /\ StreamWrite("trailer", TRAILER_LEN, <<>>, "stream_release")
  /\ UNCHANGED <<hw, steps, sda, handler, cam_ready, XCLK_HZ, c, drvInit, sensor_applied,
                 bus, i, ok, nulls, resp, acq, frames>>

\* if (fb) esp_camera_fb_return(fb); else if (jpg) free(jpg);  delay(1);
handleStream_release ==
  /\ pc = "stream_release"
  /\ ret' = ret + DisposeReturns(fb, jpg)
  /\ disp' = Disposed(disp, fb, jpg)
  /\ fb' = NoFb /\ jpg' = "null" /\ len' = 0
  /\ pc' = "stream_loop"
  /\ UNCHANGED <<hw, steps, sda, handler, cam_ready, XCLK_HZ, c, drvInit, sensor_applied,
                 bus, i, ok, nulls, conn, acq, frames>>

----------------------------------------------------------------------------
(* src/version/default/main.cpp *)

\* setup(): esp_camera_init(&config); a failure is printed and setup goes on
default_setup ==
  /\ pc = "boot" /\ variant = "default"
  /\ c' = [xclk_freq_hz |-> XCLK_HZ_FALLBACK,
           fb_count     |-> IF psram THEN FB_COUNT ELSE 1,
           fb_location  |-> "NONE"]
  /\ \E err \in {"ESP_OK", "ESP_FAIL"} : drvInit' = (err = "ESP_OK")
  /\ pc' = "done"
  /\ UNCHANGED <<hw, steps, sda, handler, cam_ready, XCLK_HZ, sensor_applied, bus, locals,
                 conn, ghost>>

\* res = httpd_resp_set_type(req, ...); if (res != ESP_OK) return res;
stream_handler_begin ==
  /\ DispatchPoint /\ variant = "default"
  /\ handler' = "stream_handler"
  /\ \E res \in {"ESP_OK", "ESP_FAIL"} :
       IF res = "ESP_OK"
       THEN pc' = "dstream_get" /\ UNCHANGED exit
       ELSE pc' = "done" /\ exit' = "settype"
  /\ UNCHANGED <<hw, steps, sda, cam_ready, XCLK_HZ, c, drvInit, sensor_applied, bus,
                 locals, out, resp, shorts, ghost>>

\* fb = esp_camera_fb_get(); if (!fb) { httpd_resp_send_500(req); break; }
stream_handler_get ==
  /\ pc = "dstream_get"
  /\ \E f \in FbGetResults :
       /\ (f # NoFb) => acq < MaxFrames
       /\ IF f = NoFb
          THEN /\ resp' = 500 /\ exit' = "nulls" /\ pc' = "done"
               /\ UNCHANGED <<fb, acq, disp>>
          ELSE /\ fb' = f /\ acq' = acq + 1 /\ disp' = Captured
               /\ pc' = "dstream_enc"
               /\ UNCHANGED <<resp, exit>>
  /\ UNCHANGED <<hw, steps, sda, handler, cam_ready, XCLK_HZ, c, drvInit, sensor_applied,
                 bus, i, ok, jpg, len, nulls, out, shorts, ret, frames>>

\* the encode step; on failure httpd_resp_send_500(req); break;
stream_handler_enc ==
  /\ pc = "dstream_enc"
  /\ Encode("dstream_hdr", ConvFailedPc("dstream_get"), 500, "conv")
  /\ UNCHANGED <<hw, steps, sda, handler, cam_ready, XCLK_HZ, c, drvInit, sensor_applied,
                 bus, i, ok, nulls, out, shorts, acq>>

\* One operand of the || chain of lines 150-152:
\*   httpd_resp_send_chunk(req, buf, req) != ESP_OK  =>  <dispose>; break;
\* httpd_resp_send_chunk sends all of the chunk or reports an error.
ChunkSend(k, req, cl, nextpc) ==
  \E err \in {"ESP_OK", "ESP_FAIL"} :
    /\ out' = Append(out, Wr(k, req, IF err = "ESP_OK" THEN req ELSE 0, cl))
    /\ IF err # "ESP_OK"
       THEN /\ ret' = ret + DisposeReturns(fb, jpg)
            /\ disp' = Disposed(disp, fb, jpg)
            /\ fb' = NoFb /\ jpg' = "null" /\ len' = 0
            /\ exit' = "write"
            /\ pc' = "done"
       ELSE /\ pc' = nextpc
            /\ UNCHANGED <<ret, disp, fb, jpg, len, exit>>

stream_handler_hdr ==
  /\ pc = "dstream_hdr"
  /\ ChunkSend("hdr", SnprintfLen(len), FormatU(len), "dstream_payload")
  /\ UNCHANGED <<hw, steps, sda, handler, cam_ready, XCLK_HZ, c, drvInit, sensor_applied,
                 bus, i, ok, nulls, resp, shorts, acq, frames>>

stream_handler_payload ==
  /\ pc = "dstream_payload"
  /\ ChunkSend("payload", len, <<>>, "dstream_trailer")
  /\ UNCHANGED <<hw, steps, sda, handler, cam_ready, XCLK_HZ, c, drvInit, sensor_applied,
                 bus, i, ok, nulls, resp, shorts, acq, frames>>

stream_handler_trailer ==
  /\ pc = "dstream_trailer"
  /\ ChunkSend("trailer", TRAILER_LEN, <<>>, "dstream_release")
  /\ UNCHANGED <<hw, steps, sda, handler, cam_ready, XCLK_HZ, c, drvInit, sensor_applied,
                 bus, i, ok, nulls, resp, shorts, acq, frames>>

\* if (fb) { return(fb); fb = NULL; _jpg_buf = NULL; }
\* else if (_jpg_buf) { free(_jpg_buf); _jpg_buf = NULL; }   vTaskDelay(1);
stream_handler_release ==
  /\ pc = "dstream_release"
  /\ ret' = ret + DisposeReturns(fb, jpg)
  /\ disp' = Disposed(disp, fb, jpg)
  /\ fb' = NoFb /\ jpg' = "null" /\ len' = 0
  /\ pc' = "dstream_get"
  /\ UNCHANGED <<hw, steps, sda, handler, cam_ready, XCLK_HZ, c, drvInit, sensor_applied,
                 bus, i, ok, nulls, conn, acq, frames>>

----------------------------------------------------------------------------
Next ==
  \/ setup_begin
  \/ setup_finish
  \/ camera_reinit_deinit
  \/ sccb_recover_start
  \/ sccb_recover_pulse
  \/ sccb_recover_stop
  \/ sccb_recover_release
  \/ camera_reinit_init1
  \/ camera_reinit_init2
  \/ camera_reinit_sensor
  \/ camera_reinit_warm
  \/ camera_reinit_done
  \/ camera_reinit_return
  \/ loop
  \/ handleReinit_begin
  \/ handleReinit_send
  \/ handleHealth_begin
  \/ handleHealth_try
  \/ handleHealth_exit
  \/ handleHealth_send
  \/ handleJpg_begin
  \/ handleJpg_enc
  \/ handleJpg_send
  \/ handleJpg_release
  \/ handleStream_begin
  \/ handleStream_get
  \/ handleStream_enc
  \/ handleStream_hdr
  \/ handleStream_payload
  \/ handleStream_trailer
  \/ handleStream_release
  \/ default_setup
  \/ stream_handler_begin
  \/ stream_handler_get
  \/ stream_handler_enc
  \/ stream_handler_hdr
  \/ stream_handler_payload
  \/ stream_handler_trailer
  \/ stream_handler_release

Spec == Init /\ [][Next]_vars

----------------------------------------------------------------------------
(* The steps of camera_reinit() and the specification under which the      *)
(* control flow, once inside camera_reinit(), keeps executing: every call  *)
(* in it is a blocking call with a bounded delay.                          *)

ReinitStep ==
  \/ camera_reinit_deinit
  \/ sccb_recover_start
  \/ sccb_recover_pulse
  \/ sccb_recover_stop
  \/ sccb_recover_release
  \/ camera_reinit_init1
  \/ camera_reinit_init2
  \/ camera_reinit_sensor
  \/ camera_reinit_warm
  \/ camera_reinit_done
  \/ camera_reinit_return

LiveSpec == Init /\ [][Next]_vars /\ WF_vars(ReinitStep)

\* handleStream at the head of its loop goes on to test the connection and
\* acquire: its delays are bounded and loop() runs nothing else meanwhile
StreamLiveSpec == Init /\ [][Next]_vars /\ WF_vars(handleStream_get)

\* PipelineState of the design, read off the program state: Recovering while
\* the control flow is inside camera_reinit(), otherwise what cam_ready says
PipelineState ==
  IF pc \in ReinitPcs THEN "Recovering"
  ELSE IF pc = "boot" THEN "Uninitialized"
  ELSE IF cam_ready THEN "Ready"
  ELSE "Degraded"

\* the handlers that capture a frame for a client
FrameHandlers == {"handleStream", "handleJpg", "stream_handler"}

\* the handling of the frame captured last is over
FrameEnded ==
  /\ handler \in FrameHandlers
  /\ pc \in {"done", "stream_loop", "dstream_get"}
  /\ disp.path # "none"

----------------------------------------------------------------------------
(* Claims *)

\* C1: in the stream session (both variants), the snapshot handler, the
\* readiness probe and the warm-up loop, every non-null frame buffer obtained
\* from the driver is returned exactly once before the operation ends: returns
\* never exceed acquisitions, at most one buffer is outstanding, no frame is
\* returned twice, and when the operation ends (and at every loop top) the
\* number of returns equals the number of non-null acquisitions.
C1_ReturnedExactlyOnce ==
  /\ ret <= acq
  /\ acq <= ret + 1
  /\ disp.rel <= 1
  /\ pc \in {"done", "reinit_ret", "health_send", "stream_loop",
             "dstream_get", "idle"} => ret = acq

\* C1 witness: a stream session that acquired several frames, converted the
\* last one and ended on a failed write.
C1_Witness ==
  /\ pc = "done" /\ handler = "handleStream"
  /\ acq >= 2 /\ ret = acq
  /\ exit = "write" /\ disp.path = "converted"

\* C2 as stated (for handleStream and handleJpg): per captured frame exactly one of {FrameBuffer release,
\* allocation free} fires, never both and never neither.
C2_ExactlyOneDisposal ==
  (FrameEnded /\ variant = "src") => disp.rel + disp.freed = 1

\* C2 as amended: per captured frame the FrameBuffer is released to the
\* driver exactly once, and the converted allocation is freed exactly once
\* when the frame was converted successfully and never otherwise (an already
\* JPEG frame and a failed conversion fire the release only; a successful
\* conversion fires the release and the free).
C2_ReleaseOnceFreeIffConverted ==
  /\ disp.rel <= 1 /\ disp.freed <= 1
  /\ FrameEnded =>
       /\ disp.rel = 1
       /\ disp.freed = (IF disp.path = "converted" THEN 1 ELSE 0)

\* C2 witness: the snapshot handler has finished a successfully converted
\* frame, with the release and the free both done.
C2_Witness ==
  /\ pc = "done" /\ handler = "handleJpg"
  /\ disp.path = "converted" /\ disp.rel = 1 /\ disp.freed = 1

\* C3: in the stream session of src/src/main.cpp the session is aborted for
\* lack of frames exactly when the consecutive-null count reaches 8; the
\* count never exceeds 8; it is 0 while a frame is being handled; and a
\* non-null frame after 7 consecutive nulls resets the count and the session
\* goes on to encode it.
C3_NullBound ==
  /\ [](/\ nulls <= STREAM_NULL_LIMIT
        /\ handler = "handleStream" =>
             ((exit = "nulls") <=> (nulls >= STREAM_NULL_LIMIT))
        /\ (handler = "handleStream" /\ exit = "nulls") => pc = "done"
        /\ pc \in {"stream_enc", "stream_hdr", "stream_payload",
                   "stream_trailer", "stream_release"} => nulls = 0)
  /\ [][(pc = "stream_loop" /\ nulls = STREAM_NULL_LIMIT - 1 /\ acq' = acq + 1)
          => (pc' = "stream_enc" /\ nulls' = 0 /\ exit' = "none")]_vars
  /\ [][(pc = "stream_loop" /\ nulls < STREAM_NULL_LIMIT - 1)
          => exit' # "nulls"]_vars

\* C3 witness: a session that had delivered a frame (so the count had been
\* reset) is aborted after 8 consecutive nulls.
C3_Witness ==
  /\ pc = "done" /\ handler = "handleStream"
  /\ exit = "nulls" /\ nulls = STREAM_NULL_LIMIT /\ acq >= 1

\* C4: camera_reinit() entered while the pipeline is Ready terminates, and
\* when it returns the pipeline state is Ready or Degraded (not Recovering),
\* with cam_ready equal to the returned result.
C4_ReinitSettles ==
  (pc = "reinit_deinit" /\ cam_ready)
    ~> (/\ pc = "handleReinit_send"
        /\ PipelineState \in {"Ready", "Degraded"}
        /\ cam_ready = ok)

\* C4 witness: a camera_reinit() entered from handleReinit while Ready (the
\* flag is still true inside the call) has had its first init attempt fail
\* and is about to retry.
C4_Witness ==
  /\ pc = "reinit_init2" /\ handler = "handleReinit"
  /\ cam_ready /\ ~drvInit

\* the three writes of a multipart part
PartKinds == {"hdr", "payload", "trailer"}

\* the j-th write of the session failed (the transport took no byte)
FailedWrite(j) == out[j].k \in PartKinds /\ out[j].n = 0

\* the j-th write of the session did not transmit all it was asked to
PartialWrite(j) == out[j].k \in PartKinds /\ out[j].n < out[j].req

\* every write of the session so far transmitted all it was asked to
AllWritesFull == \A j \in 1..Len(out) : out[j].n = out[j].req

\* C5: in a stream session (both variants) a failed write of the part
\* header, the payload or the trailing delimiter ends the session: the failed
\* write is the last write on the connection, the handler has left its loop
\* because of it, and no acquisition and no write follows.
C5_WriteFailureEndsSession ==
  /\ [](handler \in {"handleStream", "stream_handler"} =>
          \A j \in 1..Len(out) :
            FailedWrite(j) => (j = Len(out) /\ pc = "done" /\ exit = "write"))
  /\ [][(handler \in {"handleStream", "stream_handler"}
           /\ \E j \in 1..Len(out) : FailedWrite(j))
          => (acq' <= acq /\ Len(out') <= Len(out))]_vars

\* C5 witness: after one complete part, the write of the trailing delimiter
\* of the second part failed and the session is over.
C5_Witness ==
  /\ pc = "done" /\ handler = "handleStream" /\ exit = "write"
  /\ Len(out) = 7 /\ out[7].k = "trailer" /\ out[7].n = 0

\* C6: in handleStream, while every write so far transmitted all its bytes,
\* the connection carries the preamble followed by one part per acquired
\* frame in acquisition order; the header of part k carries a Content-Length
\* that reads back as the byte length of frame k's encoded payload, the
\* payload write transmits exactly that many bytes, and the trailer is 2
\* bytes; at the top of the loop and at the end every part is complete.
C6_PartsMatchFrames ==
  (handler = "handleStream" /\ AllWritesFull /\ Len(out) >= 1) =>
    /\ out[1].k = "preamble"
    /\ Len(out) <= 1 + 3 * Len(frames)
    /\ Len(out) >= 1 + 3 * (Len(frames) - 1)
    /\ pc \in {"stream_loop", "done"}
         => Len(out) = 1 + 3 * Len(frames)
    /\ \A k \in 1..Len(frames) :
         /\ 3 * k - 1 <= Len(out) =>
              /\ out[3 * k - 1].k = "hdr"
              /\ DecValue(out[3 * k - 1].cl) = frames[k]
         /\ 3 * k <= Len(out) =>
              /\ out[3 * k].k = "payload"
              /\ out[3 * k].n = frames[k]
         /\ 3 * k + 1 <= Len(out) =>
              /\ out[3 * k + 1].k = "trailer"
              /\ out[3 * k + 1].n = 2

\* C6 witness: frames of 1000, 2000 and 1500 bytes were streamed with every
\* write succeeding: the preamble and three complete parts are on the wire.
C6_Witness ==
  /\ handler = "handleStream" /\ pc = "stream_loop"
  /\ frames = <<1000, 2000, 1500>>
  /\ AllWritesFull /\ Len(out) = 10
  /\ out[2].cl = <<1, 0, 0, 0>> /\ out[5].cl = <<2, 0, 0, 0>>
  /\ out[8].cl = <<1, 5, 0, 0>>

\* C7 as stated: in handleStream a part whose header, payload or trailer was
\* not written in full (a failed write or a short write) is the last part of
\* the session: no further part is begun and the loop is not at its top, or
\* encoding a next frame, after it.
C7_PartialPartIsLast ==
  handler = "handleStream" =>
    \A j \in 1..Len(out) :
      PartialWrite(j) =>
        /\ \A m \in (j + 1)..Len(out) : out[m].k # "hdr"
        /\ pc \notin {"stream_loop", "stream_enc", "stream_hdr"}

\* C8: handleHealth makes no acquisition and reports ok=false when cam_ready
\* is false; when cam_ready is true it makes at most 2 attempts (fewer than
\* the stream bound 8), stops at the first non-null frame with ok=true, and
\* reports ok=false only after 2 attempts that all returned null; the status
\* is 200 exactly when ok.
C8_ProbeBounded ==
  handler = "handleHealth" =>
    /\ HEALTH_TRIES < STREAM_NULL_LIMIT
    /\ i <= HEALTH_TRIES
    /\ acq <= 1
    /\ ok <=> (acq = 1)
    /\ ~cam_ready => (i = 0 /\ acq = 0)
    /\ (pc \in {"health_send", "done"} /\ cam_ready) =>
         \/ ok /\ i >= 1
         \/ ~ok /\ i = HEALTH_TRIES /\ acq = 0
    /\ pc = "done" => resp = (IF ok THEN 200 ELSE 500)

\* C8 witness: the probe of a ready pipeline got null, then a frame, and
\* answered ok=true after 2 attempts.
C8_Witness ==
  /\ handler = "handleHealth" /\ pc = "done"
  /\ cam_ready /\ ok /\ i = 2 /\ acq = 1 /\ resp = 200

\* C9: no step of handleHealth changes cam_ready, whatever its acquisition
\* attempts return.
C9_ProbeKeepsReady ==
  [][handler' = "handleHealth" => cam_ready' = cam_ready]_vars

\* C9 witness: a probe of a ready pipeline got null on both attempts and
\* answered 500, with cam_ready still true.
C9_Witness ==
  /\ handler = "handleHealth" /\ pc = "done"
  /\ ~ok /\ i = HEALTH_TRIES /\ resp = 500 /\ cam_ready

\* C10: handleReinit runs camera_reinit() and answers 200 exactly when it
\* returned true (a driver init succeeded and the sensor parameters were
\* applied) and 500 exactly when it returned false; cam_ready then equals the
\* reported outcome.
C10_ReinitStatus ==
  (handler = "handleReinit" /\ pc = "done") =>
    /\ resp \in {200, 500}
    /\ (resp = 200) <=> ok
    /\ (resp = 500) <=> ~ok
    /\ ok <=> (drvInit /\ sensor_applied)
    /\ cam_ready = ok
    /\ c = make_cam_cfg(XCLK_HZ)

\* C10 witness: a reinit request on a ready pipeline failed both init
\* attempts and was answered 500 with cam_ready false.
C10_Witness ==
  /\ handler = "handleReinit" /\ pc = "done"
  /\ resp = 500 /\ ~cam_ready /\ ~drvInit

----------------------------------------------------------------------------
(* camera_reinit(): attempts, order of the calls, configuration *)

\* the esp_camera_init calls among the recorded calls, by position
InitAt(s) == {k \in 1..Len(s) : s[k].op = "init"}

\* camera_reinit() has returned false and its caller has not yet used the result
ReinitFailed == pc = "reinit_ret" /\ ~ok

\* C11: one camera_reinit() call makes at most two esp_camera_init attempts;
\* when both fail it returns false with cam_ready false and goes straight back
\* to its caller, and camera_reinit() is entered only from setup() or, after
\* startup, from the /reinit handler dispatched by loop().
C11_TwoAttemptsNoRetry ==
  /\ [](/\ Cardinality(InitAt(steps)) <= 2
        /\ ReinitFailed => (~cam_ready /\ Cardinality(InitAt(steps)) = 2))
  /\ [][ReinitFailed => pc' \in {"setup_assign", "handleReinit_send"}]_vars
  /\ [][(pc # "reinit_deinit" /\ pc' = "reinit_deinit")
          => \/ pc = "boot" /\ handler' = "setup"
             \/ pc = "idle" /\ handler' = "handleReinit"]_vars

\* a /reinit whose two initialization attempts both failed
C11_Witness ==
  /\ ReinitFailed
  /\ handler = "handleReinit"
  /\ Cardinality(InitAt(steps)) = 2
  /\ ~cam_ready

\* C12: when the first esp_camera_init of a camera_reinit() call fails, the
\* configuration passed to the retry has a lower clock frequency and a smaller
\* frame buffer count than the configuration of the first attempt.  Stated
\* for boards with PSRAM, where the first attempt asks for FB_COUNT buffers.
C12_RetryLowersClockAndBuffers ==
  psram =>
    \A a \in InitAt(steps), b \in InitAt(steps) :
      a < b => /\ steps[b].cfg.xclk_freq_hz < steps[a].cfg.xclk_freq_hz
               /\ steps[b].cfg.fb_count < steps[a].cfg.fb_count

\* the warm-up acquire/release cycles of the latest initialization are over
WarmupFinished == pc \notin {"reinit_sensor", "reinit_warm"}

\* C13: in every reachable state, the steps inside camera_reinit() included,
\* cam_ready is true only if the driver is initialized, the sensor parameters
\* have been re-applied and the warm-up cycles have finished.
C13_ReadyOnlyAfterWarmup ==
  cam_ready => (drvInit /\ sensor_applied /\ WarmupFinished)

\* C14: the calls of every camera_reinit() come in the order driver deinit,
\* bus recovery, power-down/reset pulse, initialize: each esp_camera_init is
\* preceded by the deinit, then the recovery, then the pulse, none left out.
C14_DeinitRecoverPulseInit ==
  \A k \in InitAt(steps) :
    /\ k > 3
    /\ steps[1].op = "deinit"
    /\ steps[2].op = "sccb_recover"
    /\ steps[3].op = "pulse"

\* sccb_recover() is driving the bus lines
SccbPcs == {"sccb_start", "sccb_pulse", "sccb_stop", "sccb_release"}

\* C15: while sccb_recover() runs the driver is deinitialized: the run was
\* preceded by esp_camera_deinit with no esp_camera_init in between, and no
\* step taken during the run initializes the driver or acquires a frame.
C15_RecoveryOnlyWhileDeinitialized ==
  /\ [](pc \in SccbPcs =>
          /\ ~drvInit
          /\ steps # <<>>
          /\ steps[1].op = "deinit"
          /\ InitAt(steps) = {})
  /\ [][(pc \in SccbPcs) => (~drvInit' /\ acq' = acq)]_vars

\* bus recovery pulsing SCL in a /reinit entered with an initialized driver
C15_Witness ==
  /\ pc = "sccb_pulse"
  /\ i >= 1
  /\ handler = "handleReinit"
  /\ cam_ready
  /\ ~drvInit

----------------------------------------------------------------------------
(* one handler at a time *)

\* positions inside the stream loop of handleStream and of stream_handler
StreamPcs == {"stream_loop", "stream_enc", "stream_hdr", "stream_payload",
              "stream_trailer", "stream_release",
              "dstream_get", "dstream_enc", "dstream_hdr", "dstream_payload",
              "dstream_trailer", "dstream_release"}

\* a stream session has started and its handler has not returned
SessionActive == pc \in StreamPcs

\* C16: camera_reinit() never runs while a frame is outstanding or a stream
\* session is active.  Handlers run to completion one at a time: a handler is
\* entered only from loop() (or setup from boot) and left only when it has
\* returned, the position inside a stream session belongs to the stream handler
\* alone, and while camera_reinit() runs no session has written anything and no
\* frame buffer is held.
C16_ReinitNotInterleaved ==
  /\ [](/\ pc \in ReinitPcs =>
             /\ handler \in {"setup", "handleReinit"}
             /\ out = <<>>
             /\ fb = NoFb
             /\ acq = ret
        /\ SessionActive => handler \in {"handleStream", "stream_handler"}
        /\ (fb # NoFb /\ pc # "done") => handler \in FrameHandlers)
  /\ [][handler' # handler => pc \in {"boot", "idle", "done"}]_vars

\* a stream session sending its second frame while holding the frame buffer
C16_Witness ==
  /\ handler = "handleStream"
  /\ pc = "stream_payload"
  /\ fb # NoFb
  /\ acq = 2

\* C17: the clock frequency configured at startup is never changed, so the
\* first esp_camera_init of every camera_reinit() call is given the originally
\* configured clock frequency.
C17_FirstAttemptUsesConfiguredClock ==
  \A k \in InitAt(steps) :
    (\A j \in InitAt(steps) : k <= j) =>
       steps[k].cfg.xclk_freq_hz = XCLK_HZ_DEFAULT

----------------------------------------------------------------------------
(* handleJpg(): status and body *)

\* C18 as stated: a 200 answer of the snapshot handler always comes with one
\* complete image, all of whose bytes were sent.
C18_OkOnlyWithCompleteImage ==
  (handler = "handleJpg" /\ resp = 200) =>
     (Len(out) = 2 /\ out[2].n = out[2].req)

\* C18 (amended): the snapshot handler answers 200 only when it has an encoded
\* image; it then announces a Content-Length equal to the encoded length and
\* asks the transport once for exactly that many bytes.  When the camera is
\* not ready, the acquisition returns null or the conversion fails it answers
\* 503 or 500 and writes nothing.  On return no frame buffer and no converted
\* allocation is held.
C18_SnapshotStatusAndBody ==
  handler = "handleJpg" =>
    /\ resp \in {0, 200, 500, 503}
    /\ resp = 200 =>
         /\ Len(out) = 2 /\ Len(frames) = 1
         /\ out[1].k = "status" /\ DecValue(out[1].cl) = frames[1]
         /\ out[2].k = "payload" /\ out[2].req = frames[1]
         /\ out[2].n <= out[2].req
    /\ pc = "done" =>
         /\ resp # 0
         /\ acq = ret
         /\ disp.freed = (IF disp.path = "converted" THEN 1 ELSE 0)
         /\ ~cam_ready => resp = 503
         /\ (cam_ready /\ acq = 0) => resp = 500
         /\ disp.path = "convfail" => resp = 500
         /\ resp # 200 => (out = <<>> /\ frames = <<>>)

\* a snapshot of a converted frame sent completely and released
C18_Witness ==
  /\ handler = "handleJpg" /\ pc = "done"
  /\ resp = 200
  /\ disp.path = "converted"
  /\ out[2].n = out[2].req

----------------------------------------------------------------------------
(* handleStream(): order of the steps of a session *)

\* the kind of the j-th write of a session that began with the preamble
KindAt(j) ==
  IF j = 1 THEN "preamble"
  ELSE IF (j - 2) % 3 = 0 THEN "hdr"
  ELSE IF (j - 2) % 3 = 1 THEN "payload"
  ELSE "trailer"

\* writes made once the frames encoded before the current one were sent
SentBefore == 1 + 3 * (Len(frames) - 1)

\* C19: a stream session of handleStream goes preamble, then per iteration
\* acquisition, encoding and the three writes, then closed.  The preamble is
\* the first write and the only preamble, it precedes every acquisition, each
\* part follows the encoding of its frame, which follows its acquisition, and
\* nothing is written or acquired once the handler has left the loop.
C19_SessionOrder ==
  /\ [](handler = "handleStream" =>
          /\ \A j \in 1..Len(out) : out[j].k = KindAt(j)
          /\ (acq > 0 \/ pc \in StreamPcs) => Len(out) >= 1
          /\ Len(frames) <= acq
          /\ pc = "stream_loop" =>
               (Len(out) = SentBefore + 3 /\ Len(frames) = acq /\ ret = acq)
          /\ pc = "stream_enc" =>
               (Len(out) = SentBefore + 3 /\ Len(frames) = acq - 1)
          /\ pc = "stream_hdr" => (Len(out) = SentBefore /\ Len(frames) = acq)
          /\ pc = "stream_payload" =>
               (Len(out) = SentBefore + 1 /\ Len(frames) = acq)
          /\ pc = "stream_trailer" =>
               (Len(out) = SentBefore + 2 /\ Len(frames) = acq)
          /\ pc = "stream_release" =>
               (Len(out) = SentBefore + 3 /\ Len(frames) = acq))
  /\ [][(handler = "handleStream" /\ pc = "done" /\ handler' = handler)
          => (out' = out /\ acq' = acq)]_vars

\* the second frame of a session sent after the preamble and the first part
C19_Witness ==
  /\ handler = "handleStream"
  /\ pc = "stream_release"
  /\ acq = 2
  /\ Len(out) = 7

----------------------------------------------------------------------------
(* no use of a frame buffer after its return *)

\* positions at which a write of the current part is about to be made
WritePcs == {"stream_hdr", "stream_payload", "stream_trailer",
             "dstream_hdr", "dstream_payload", "dstream_trailer"}

\* C20: in handleStream and stream_handler a frame buffer is not used after
\* its return.  While the writes of a part are pending, an already-JPEG frame
\* (jpg aliases fb->buf) is still held and has not been returned; a converted
\* frame was returned right after the conversion, before any write of its
\* part, and the handler no longer points to it; after a failed conversion the
\* frame has been returned as well and no part is written for it.  A return on
\* the alias path happens only with a failed write, which is the last write
\* attempted for the part, or after the trailer.
C20_NoUseAfterRelease ==
  /\ [](handler \in {"handleStream", "stream_handler"} =>
          /\ pc \in WritePcs => jpg \in {"alias", "alloc"}
          /\ (pc \in WritePcs /\ jpg = "alias") =>
               (fb # NoFb /\ fb.format = "JPEG" /\ disp.rel = 0 /\ ret = acq - 1)
          /\ (pc \in WritePcs /\ jpg = "alloc") =>
               (fb = NoFb /\ disp.rel = 1 /\ disp.freed = 0 /\ ret = acq)
          /\ disp.path = "convfail" =>
               (fb = NoFb /\ disp.rel = 1 /\ ret = acq /\ pc = "done")
          /\ disp.rel <= 1)
  /\ [][(pc \in WritePcs /\ jpg = "alias" /\ ret' # ret) =>
          (pc' = "done" /\ Len(out') = Len(out) + 1 /\ out'[Len(out')].n = 0)]_vars
  /\ [][(pc \in WritePcs /\ jpg = "alloc") => ret' = ret]_vars

\* the payload of a converted frame about to be written, its source frame
\* already returned
C20_Witness ==
  /\ handler = "handleStream"
  /\ pc = "stream_payload"
  /\ jpg = "alloc"
  /\ fb = NoFb
  /\ disp.rel = 1

----------------------------------------------------------------------------
(* stream sessions: conversion failure, termination, null frames *)

\* the handlers that serve a stream session
StreamHandlers == {"handleStream", "stream_handler"}

\* writes of parts made in the session (the preamble of handleStream is not
\* a part)
PartWrites == Cardinality({j \in 1..Len(out) : out[j].k \in PartKinds})

\* C21: a failed conversion ends the stream session at once: the handler
\* returns, no header, payload or trailer is written for the frame, and no
\* further frame is acquired or conversion tried.
C21_ConversionFailureFatal ==
  /\ [](handler \in StreamHandlers =>
          /\ disp.path = "convfail" =>
               /\ pc = "done" /\ exit = "conv"
               /\ Len(frames) = acq - 1
               /\ PartWrites = 3 * Len(frames)
          /\ exit = "conv" => (pc = "done" /\ disp.path = "convfail"))
  /\ [][(handler \in StreamHandlers /\ exit = "conv" /\ handler' = handler)
          => (out' = out /\ acq' = acq /\ ret' = ret)]_vars

\* a session that sent one frame and was closed by the failed conversion of
\* the second
C21_Witness ==
  /\ handler = "handleStream"
  /\ pc = "done" /\ exit = "conv"
  /\ acq = 2
  /\ Len(out) = 4

\* the driver has no further frame for the session: every acquisition from
\* here on returns null
NoMoreFrames == acq = MaxFrames

\* C22: a session of handleStream closes once the client is reported
\* disconnected or the driver keeps returning null.  A reported disconnect
\* ends the session at the loop head: every frame acquired before it was
\* handled completely and nothing was acquired or written after it.  The null
\* exit is taken exactly when the count of consecutive null acquisitions has
\* reached 8.  A closed session never acquires or writes again, and a session
\* at the head of its loop with a driver that has no more frames does close.
C22_SessionCloses ==
  /\ [](handler = "handleStream" =>
          /\ exit = "nulls" =>
               (nulls = STREAM_NULL_LIMIT /\ pc = "done" /\ ret = acq)
          /\ exit = "disconnected" =>
               /\ pc = "done" /\ ret = acq
               /\ Len(frames) = acq /\ PartWrites = 3 * acq
          /\ pc = "done" => exit # "none"
          /\ pc = "stream_loop" => (exit = "none" /\ nulls < STREAM_NULL_LIMIT))
  /\ [][(handler = "handleStream" /\ pc = "done" /\ handler' = handler)
          => (out' = out /\ acq' = acq /\ pc' = "done")]_vars
  /\ (handler = "handleStream" /\ pc = "stream_loop" /\ NoMoreFrames)
        ~> (pc = "done")

\* a session closed by 8 null acquisitions in a row after its last frame
C22_Witness ==
  /\ handler = "handleStream"
  /\ pc = "done" /\ exit = "nulls"
  /\ nulls = STREAM_NULL_LIMIT
  /\ NoMoreFrames

----------------------------------------------------------------------------
(* sccb_recover(): pulses and final line state *)

\* C23: sccb_recover() issues at most 9 clock pulses: none when the data line
\* reads high at the start, otherwise it pulses only while every sample so far
\* read low and stops after the first pulse followed by a high sample, or
\* after the 9th.  It then always drives the stop condition and ends with the
\* data and clock lines both configured as pulled-up inputs.
C23_PulsesBoundedLinesRestored ==
  /\ [](/\ pc = "sccb_pulse" => (sda = "LOW" /\ i < SCCB_MAX_PULSES)
        /\ pc \in {"sccb_stop", "sccb_release"} =>
             /\ i <= SCCB_MAX_PULSES
             /\ i < SCCB_MAX_PULSES => sda = "HIGH"
        /\ pc = "sccb_release" => (siod = "OUTPUT_HIGH" /\ sioc = "OUTPUT_HIGH")
        /\ pc \in ReinitPcs \ (SccbPcs \cup {"reinit_deinit"}) =>
             (siod = "INPUT_PULLUP" /\ sioc = "INPUT_PULLUP"))
  /\ [][(pc = "sccb_start") =>
          (i' = 0 /\ (pc' = "sccb_stop" <=> sda' = "HIGH")
                  /\ (pc' = "sccb_pulse" <=> sda' = "LOW"))]_vars
  /\ [][(pc = "sccb_pulse") =>
          (i' = i + 1 /\ (sda' = "HIGH" => pc' = "sccb_stop"))]_vars
  /\ [][(pc = "sccb_stop") => pc' = "sccb_release"]_vars
  /\ [][(pc # "reinit_init1" /\ pc' = "reinit_init1") =>
          pc = "sccb_release"]_vars

\* a recovery that stopped after its third pulse because the data line read
\* high, and has driven the stop condition
C23_Witness ==
  /\ pc = "sccb_release"
  /\ i = 3
  /\ sda = "HIGH"

\* C24: in stream_handler a single null acquisition does not end the session.
\* Every arrival at the head of its loop follows the entry of the handler or
\* a delivered frame, so a null result there is the first in a row.
C24_SingleNullRetried ==
  [][(handler = "stream_handler" /\ pc = "dstream_get" /\ acq' = acq)
       => pc' # "done"]_vars

----------------------------------------------------------------------------
(* acquisitions and the readiness flag *)

\* C25: while cam_ready is false no handler of the src firmware calls
\* esp_camera_fb_get: handleStream and handleJpg answer 503 and return with
\* nothing written and nothing acquired, handleHealth skips its probe loop
\* (no attempt is counted), and a frame is acquired with the flag false only
\* in the warm-up loop of camera_reinit().
C25_NoAcquisitionWhileNotReady ==
  /\ []((variant = "src" /\ ~cam_ready) =>
          /\ handler \in {"handleStream", "handleJpg"} =>
               /\ pc = "done" /\ resp = 503
               /\ out = <<>> /\ acq = 0 /\ fb = NoFb
          /\ handler = "handleHealth" =>
               /\ pc \in {"health_send", "done"}
               /\ i = 0 /\ ~ok /\ acq = 0
          /\ acq > 0 => handler \in {"setup", "handleReinit"})
  /\ [][(variant = "src" /\ ~cam_ready /\ acq' > acq) =>
          pc = "reinit_warm"]_vars

\* a stream request refused with 503 while the camera is not ready
C25_Witness ==
  /\ handler = "handleStream" /\ pc = "done"
  /\ ~cam_ready
  /\ resp = 503
  /\ out = <<>>

\* C26: after a successful esp_camera_init, camera_reinit() makes exactly 4
\* warm-up acquisition attempts, then sets cam_ready and returns true whatever
\* the attempts returned, also when all 4 returned null.
C26_ReadyAfterFourWarmups ==
  /\ [](/\ pc = "reinit_warm" =>
             (i <= WARMUP_FRAMES /\ drvInit /\ sensor_applied)
        /\ (pc = "reinit_ret" /\ ok) =>
             (cam_ready /\ drvInit /\ i = WARMUP_FRAMES))
  /\ [][(pc = "reinit_warm" /\ pc' = "reinit_warm") =>
          (i < WARMUP_FRAMES /\ i' = i + 1
           /\ acq' - acq \in {0, 1} /\ ret' - ret = acq' - acq)]_vars
  /\ [][(pc = "reinit_warm" /\ pc' # "reinit_warm") =>
          (i = WARMUP_FRAMES /\ pc' = "reinit_ret" /\ cam_ready' /\ ok')]_vars

\* a /reinit that returns true although its four warm-up acquisitions all
\* returned null
C26_Witness ==
  /\ handler = "handleReinit"
  /\ pc = "reinit_ret" /\ ok
  /\ i = WARMUP_FRAMES
  /\ acq = 0
  /\ cam_ready

====
